---- MODULE Spec2Model ----
(***************************************************************************)
(* Payment-and-balance reconciliation core of the Musabaha Homes backend:  *)
(* the admin account endpoints (create, PUT, PATCH, delete), the payment   *)
(* endpoint, the Admin model they call and the database module they lease  *)
(* connections from.                                                       *)
(*                                                                         *)
(* JavaScript strings that the code splits, trims or parses are tuples of  *)
(* one-character strings (<<"A", ",", " ", "B">> is "A, B"); names are     *)
(* atomic strings.  Money is an integer number of currency units.          *)
(***************************************************************************)
EXTENDS Integers, Sequences, FiniteSets, TLC

\* ---------------------------------------------------------------- bounds
MaxUsers == 2
MaxPayments == 1

\* ------------------------------------------------------- JavaScript values
Undefined == [t |-> "undefined"]
JsNum(n) == [t |-> "number", v |-> n]
JsStr(s) == [t |-> "string", s |-> s]

NULL == "<null>"
NoName == "<undefined>"

Digits == <<"0", "1", "2", "3", "4", "5", "6", "7", "8", "9">>
IsDigit(c) == \E i \in 1..10 : Digits[i] = c
DigitVal(c) == (CHOOSE i \in 1..10 : Digits[i] = c) - 1

RECURSIVE TrimStart(_)
TrimStart(s) == IF s # <<>> /\ Head(s) = " " THEN TrimStart(Tail(s)) ELSE s

RECURSIVE TrimEnd(_)
TrimEnd(s) == IF s # <<>> /\ s[Len(s)] = " " THEN TrimEnd(SubSeq(s, 1, Len(s) - 1)) ELSE s

\* String.prototype.trim
trim(s) == TrimEnd(TrimStart(s))

\* String.prototype.split(','): "" gives [""], "A," gives ["A", ""]
RECURSIVE split(_)
split(s) ==
  IF \E i \in 1..Len(s) : s[i] = ","
  THEN LET i == CHOOSE k \in 1..Len(s) : s[k] = "," /\ \A j \in 1..(k - 1) : s[j] # ","
       IN <<SubSeq(s, 1, i - 1)>> \o split(SubSeq(s, i + 1, Len(s)))
  ELSE <<s>>

RECURSIVE DigitPrefix(_, _)
DigitPrefix(s, acc) ==
  IF s # <<>> /\ IsDigit(Head(s)) THEN DigitPrefix(Tail(s), 10 * acc + DigitVal(Head(s))) ELSE acc

\* a parseFloat result: a number, or NaN
Num(n) == [nan |-> FALSE, v |-> n]
NaN == [nan |-> TRUE, v |-> 0]

\* parseFloat of a string: leading blanks skipped, longest digit prefix, else NaN
parseFloatStr(s) ==
  LET t == TrimStart(s)
  IN IF t # <<>> /\ IsDigit(Head(t)) THEN Num(DigitPrefix(t, 0)) ELSE NaN

\* parseFloat of a request value
parseFloat(x) ==
  CASE x.t = "number" -> Num(x.v)
    [] x.t = "string" -> parseFloatStr(x.s)
    [] OTHER -> NaN

\* the idiom  parseFloat(x) || 0
OrZero(p) == IF p.nan THEN 0 ELSE p.v

\* JavaScript truthiness of a request value (!x is ~Truthy(x))
Truthy(x) ==
  CASE x.t = "number" -> x.v # 0
    [] x.t = "string" -> x.s # <<>>
    [] OTHER -> FALSE

Max(a, b) == IF a >= b THEN a ELSE b
Min(a, b) == IF a <= b THEN a ELSE b

RECURSIVE SumSeq(_)
SumSeq(s) == IF s = <<>> THEN 0 ELSE Head(s) + SumSeq(Tail(s))

RECURSIVE SetToSeq(_)
SetToSeq(S) == IF S = {} THEN <<>> ELSE LET x == CHOOSE y \in S : TRUE IN <<x>> \o SetToSeq(S \ {x})

Range(s) == {s[i] : i \in 1..Len(s)}

\* ------------------------------------------------------------ the stores
StoreNumbers == {<<"A">>, <<"B">>}
Names == {"n1", "n2"}

VARIABLES
  users,      \* usersTable: id -> row
  payments,   \* payments: set of rows [id, user_id, amount]
  plots,      \* plots: number -> [status, owner, reserved_at]
  seq,        \* the serial sequences of usersTable and payments
  last,       \* the request handled last, its response and the stores before it
  recon       \* the reconciliation computed last: inputs and result

vars == <<users, payments, plots, seq, last, recon>>

Stores == [users |-> users, payments |-> payments, plots |-> plots]

AvailablePlot == [status |-> "Available", owner |-> NULL, reserved_at |-> NULL]
\* a plot written as Sold with the owner column left NULL
SoldPlotNoOwner(owner) == [status |-> "Sold", owner |-> NULL, reserved_at |-> "now"]
SoldPlot(owner) == [status |-> "Sold", owner |-> owner, reserved_at |-> "now"]

NoRecon == [done |-> FALSE]

\* ------------------------------------------------- statements and their effect
\* a database module that has a connect member as well
databaseExportsWithConnect == {"pool", "query", "getClient", "connect"}

\* the module object the server file gets from require('./config/database')
databaseExports == {"pool", "query", "getClient"}

\* the statements a handler can issue; SELECTs change nothing
Begin == [q |-> "BEGIN"]
Commit == [q |-> "COMMIT"]
Select == [q |-> "SELECT"]
InsertUser(row) == [q |-> "INSERT usersTable", row |-> row]
InsertPayment(user_id, amount) == [q |-> "INSERT payments", user_id |-> user_id, amount |-> amount]
SellIfAvailable(owner, number) == [q |-> "UPDATE plots Sold WHERE number AND Available", owner |-> owner, number |-> number]
Sell(owner, number) == [q |-> "UPDATE plots Sold WHERE number", owner |-> owner, number |-> number]
ResetByOwner(owner) == [q |-> "UPDATE plots Available WHERE owner", owner |-> owner]
ResetByNumber(number) == [q |-> "UPDATE plots Available WHERE number", number |-> number]
UpdateUserFields(id, fields) == [q |-> "UPDATE usersTable SET fields", id |-> id, fields |-> fields]
UpdateBalanceStatus(id, balance, status) == [q |-> "UPDATE usersTable SET total_balance, status", id |-> id, total_balance |-> balance, status |-> status]
UpdateBalance(id, balance) == [q |-> "UPDATE usersTable SET total_balance", id |-> id, total_balance |-> balance]
DeletePayments(user_id) == [q |-> "DELETE payments", user_id |-> user_id]
DeleteUser(id) == [q |-> "DELETE usersTable", id |-> id]

\* a row with the columns of `fields` overwritten
Overwrite(row, fields) == [c \in DOMAIN row |-> IF c \in DOMAIN fields THEN fields[c] ELSE row[c]]

\* an INSERT that takes the place of the account's earlier payment rows
withPaymentRowReplacing(rows, row) == {p \in rows : p.user_id # row.user_id} \cup {row}

\* INSERT INTO payments: the table with one more row
withPaymentRow(rows, row) == rows \cup {row}

\* the effect of one statement on the tables s and the sequences sq
ExecW(st, s, sq) ==
  CASE st.q = "INSERT usersTable" ->
         [s |-> [s EXCEPT !.users = (sq.user + 1) :> st.row @@ s.users],
          sq |-> [sq EXCEPT !.user = sq.user + 1]]
    [] st.q = "INSERT payments" ->
         [s |-> [s EXCEPT !.payments = withPaymentRow(s.payments,
                   [id |-> sq.payment + 1, user_id |-> st.user_id, amount |-> st.amount])],
          sq |-> [sq EXCEPT !.payment = sq.payment + 1]]
    [] st.q = "UPDATE plots Sold WHERE number AND Available" ->
         [s |-> [s EXCEPT !.plots = [n \in DOMAIN s.plots |->
                   IF n = st.number /\ s.plots[n].status = "Available"
                   THEN SoldPlot(st.owner) ELSE s.plots[n]]],
          sq |-> sq]
    [] st.q = "UPDATE plots Sold WHERE number" ->
         [s |-> [s EXCEPT !.plots = [n \in DOMAIN s.plots |->
                   IF n = st.number THEN SoldPlot(st.owner) ELSE s.plots[n]]],
          sq |-> sq]
    [] st.q = "UPDATE plots Available WHERE owner" ->
         [s |-> [s EXCEPT !.plots = [n \in DOMAIN s.plots |->
                   IF s.plots[n].owner = st.owner THEN AvailablePlot ELSE s.plots[n]]],
          sq |-> sq]
    [] st.q = "UPDATE plots Available WHERE number" ->
         [s |-> [s EXCEPT !.plots = [n \in DOMAIN s.plots |->
                   IF n = st.number THEN AvailablePlot ELSE s.plots[n]]],
          sq |-> sq]
    [] st.q = "UPDATE usersTable SET fields" ->
         [s |-> [s EXCEPT !.users = [i \in DOMAIN s.users |->
                   IF i = st.id THEN Overwrite(s.users[i], st.fields) ELSE s.users[i]]],
          sq |-> sq]
    [] st.q = "UPDATE usersTable SET total_balance, status" ->
         [s |-> [s EXCEPT !.users = [i \in DOMAIN s.users |->
                   IF i = st.id
                   THEN [s.users[i] EXCEPT !.total_balance = st.total_balance, !.status = st.status]
                   ELSE s.users[i]]],
          sq |-> sq]
    [] st.q = "UPDATE usersTable SET total_balance" ->
         [s |-> [s EXCEPT !.users = [i \in DOMAIN s.users |->
                   IF i = st.id THEN [s.users[i] EXCEPT !.total_balance = st.total_balance]
                   ELSE s.users[i]]],
          sq |-> sq]
    [] st.q = "DELETE payments" ->
         [s |-> [s EXCEPT !.payments = {p \in s.payments : p.user_id # st.user_id}], sq |-> sq]
    [] st.q = "DELETE usersTable" ->
         [s |-> [s EXCEPT !.users = [i \in DOMAIN s.users \ {st.id} |-> s.users[i]]], sq |-> sq]
    [] OTHER -> [s |-> s, sq |-> sq]

\* a leased connection: c the committed tables, w the tables the open
\* transaction sees, sq the sequences (nextval is never rolled back)
Lease(s, sq) == [c |-> s, w |-> s, sq |-> sq]

\* client.query(st) on a leased connection
Exec(st, conn) ==
  CASE st.q = "BEGIN" -> [conn EXCEPT !.w = conn.c]
    [] st.q = "COMMIT" -> [conn EXCEPT !.c = conn.w]
    [] OTHER -> LET r == ExecW(st, conn.w, conn.sq) IN [conn EXCEPT !.w = r.s, !.sq = r.sq]

RECURSIVE ExecAll(_, _, _)
ExecAll(stmts, conn, k) ==
  IF k = 0 \/ stmts = <<>> THEN conn ELSE ExecAll(Tail(stmts), Exec(Head(stmts), conn), k - 1)

\* the catch blocks' commit: what the open transaction wrote becomes permanent
RollbackAsCommit(conn) == [conn EXCEPT !.c = conn.w]

\* await client.query('ROLLBACK') of the catch blocks
Rollback(conn) == [conn EXCEPT !.w = conn.c]

\* whether statement number failAt of stmts exists (0: no statement fails)
Fails(stmts, failAt) == failAt \in 1..Len(stmts)

\* try { stmts; [throw] } catch { ROLLBACK } finally { release }: the statements
\* before number failAt succeed, that one fails; throws: the code throws after
\* the last statement of stmts
RunTxn(stmts, throws, s, sq, failAt) ==
  LET failed == Fails(stmts, failAt) \/ throws
      k == IF Fails(stmts, failAt) THEN failAt - 1 ELSE Len(stmts)
      conn == ExecAll(stmts, Lease(s, sq), k)
      final == IF failed THEN Rollback(conn) ELSE conn
  IN [s |-> final.c, sq |-> final.sq, ok |-> ~failed,
      failed |-> Fails(stmts, failAt), undone |-> failed /\ conn.w # conn.c]

\* --------------------------------------------------------- reconciliation
\* payments.reduce((sum, p) => sum + parseFloat(p.amount), 0) over the rows of a user
SumPayments(s, id) == SumSeq([i \in 1..Cardinality({p \in s.payments : p.user_id = id}) |->
                        SetToSeq({p \in s.payments : p.user_id = id})[i].amount])

\* const currentBalance = totalDue - totalPaid, without the clamp
currentBalanceNoClamp(total_money_to_pay, totalPaid) == total_money_to_pay - totalPaid

\* const currentBalance = Math.max(0, total_money_to_pay - totalPaid)
currentBalance(total_money_to_pay, totalPaid) == Max(0, total_money_to_pay - totalPaid)

\* the status rule with the Completed -> Active branch missing
nextStatusNoRevert(balance, status) == IF balance <= 0 THEN "Completed" ELSE status

\* let status = user.status; if (currentBalance <= 0) ... else if (... === 'Completed') ...
nextStatus(balance, status) ==
  IF balance <= 0 THEN "Completed"
  ELSE IF balance > 0 /\ status = "Completed" THEN "Active"
  ELSE status

\* a reconciliation that counts the deposit and leaves the payments out
reconcileDepositOnly(total_money_to_pay, initial_deposit, totalSubsequentPayments, status) ==
  LET totalPaid == initial_deposit
      balance == currentBalance(total_money_to_pay, totalPaid)
  IN [total_paid |-> totalPaid, balance |-> balance, status |-> nextStatus(balance, status)]

\* the reconciliation block shared by createPayment, PUT and PATCH
reconcile(total_money_to_pay, initial_deposit, totalSubsequentPayments, status) ==
  LET totalPaid == initial_deposit + totalSubsequentPayments
      balance == currentBalance(total_money_to_pay, totalPaid)
  IN [total_paid |-> totalPaid, balance |-> balance, status |-> nextStatus(balance, status)]

\* ------------------------------------------------------------ Admin model
\* plot_taken.split(',').map(plot => plot.trim())
plotNumbersOf(plot_taken) == [i \in 1..Len(split(plot_taken)) |-> trim(split(plot_taken)[i])]

\* calculateTotalMoneyToPay with the loop running over every price
calculateTotalMoneyToPayAllPrices(plotTaken, pricePerPlot) ==
  IF ~Truthy(plotTaken) \/ ~Truthy(pricePerPlot) THEN 0
  ELSE LET tokens == split(pricePerPlot.s)
           prices == [i \in 1..Len(tokens) |-> OrZero(parseFloatStr(trim(tokens[i])))]
       IN SumSeq(prices)

\* Admin.calculateTotalMoneyToPay
calculateTotalMoneyToPay(plotTaken, pricePerPlot) ==
  IF ~Truthy(plotTaken) \/ ~Truthy(pricePerPlot) THEN 0
  ELSE LET numberOfPlots == Len(plotNumbersOf(plotTaken.s))
           tokens == split(pricePerPlot.s)
           prices == [i \in 1..Len(tokens) |-> OrZero(parseFloatStr(trim(tokens[i])))]
       IN SumSeq(SubSeq(prices, 1, Min(numberOfPlots, Len(prices))))

\* the row Admin.createUser inserts
createUserRow(userData) ==
  LET initialDepositValue == OrZero(parseFloat(userData.initial_deposit))
      total_balance == userData.total_money_to_pay - initialDepositValue
      status == IF initialDepositValue >= userData.total_money_to_pay THEN "Completed" ELSE "Active"
  IN [name |-> userData.name,
      plot_taken |-> userData.plot_taken.s,
      initial_deposit |-> initialDepositValue,
      total_money_to_pay |-> userData.total_money_to_pay,
      total_balance |-> total_balance,
      status |-> status]

\* createUser's plot loop without the  AND status = 'Available'  filter
createUserPlotStmtsAnyStatus(userData) ==
  IF Truthy(userData.plot_taken)
  THEN [i \in 1..Len(plotNumbersOf(userData.plot_taken.s)) |->
          Sell(userData.name, plotNumbersOf(userData.plot_taken.s)[i])]
  ELSE <<>>

\* the plot statements of Admin.createUser
createUserPlotStmts(userData) ==
  IF Truthy(userData.plot_taken)
  THEN [i \in 1..Len(plotNumbersOf(userData.plot_taken.s)) |->
          SellIfAvailable(userData.name, plotNumbersOf(userData.plot_taken.s)[i])]
  ELSE <<>>

\* the statements of Admin.createUser's try block
createUserStmts(userData) ==
  <<Begin, InsertUser(createUserRow(userData))>> \o createUserPlotStmts(userData) \o <<Commit>>

\* Admin.createUser: one transaction, rolled back and rethrown on a failure
createUser(userData, s, sq, failAt) ==
  LET stmts == createUserStmts(userData)
      r == RunTxn(stmts, FALSE, s, sq, failAt)
  IN [s |-> r.s, sq |-> r.sq, threw |-> ~r.ok, id |-> sq.user + 1,
      failAt |-> IF r.failed THEN failAt ELSE 0, undone |-> r.undone]

\* Admin.getUserById: reads the row and the payments, and writes the
\* recomputed balance (and status) back through the pool, outside any transaction
getUserById(userId, s, sq, failAt) ==
  IF failAt = 1 THEN [found |-> FALSE, s |-> s, threw |-> TRUE, failAt |-> 1]
  ELSE IF userId \notin DOMAIN s.users THEN [found |-> FALSE, s |-> s, threw |-> FALSE, failAt |-> 0]
  ELSE IF failAt \in {2, 3} THEN [found |-> FALSE, s |-> s, threw |-> TRUE, failAt |-> failAt]
  ELSE LET user == s.users[userId]
           totalPaid == user.initial_deposit + SumPayments(s, userId)
           balance == currentBalance(user.total_money_to_pay, totalPaid)
           st == IF balance <= 0 /\ user.status # "Completed"
                   THEN UpdateBalanceStatus(userId, 0, "Completed")
                 ELSE IF balance > 0 /\ user.status = "Completed"
                   THEN UpdateBalanceStatus(userId, balance, "Active")
                 ELSE UpdateBalance(userId, balance)
           status == IF balance <= 0 /\ user.status # "Completed" THEN "Completed"
                     ELSE IF balance > 0 /\ user.status = "Completed" THEN "Active"
                     ELSE user.status
       IN [found |-> TRUE, user |-> [user EXCEPT !.total_balance = balance, !.status = status],
           s |-> ExecW(st, s, sq).s, threw |-> FALSE, failAt |-> 0]

\* the statements of Admin.createPayment's try block: without the user row
\* the code throws 'User not found' after the user SELECT
createPaymentStmts(paymentData, s, sq) ==
  LET user_id == paymentData.user_id
      insert == InsertPayment(user_id, OrZero(parseFloat(paymentData.amount)))
      s1 == ExecW(insert, s, sq).s
  IN IF user_id \notin DOMAIN s1.users
     THEN <<Begin, insert, Select>>
     ELSE LET user == s1.users[user_id]
              rc == reconcile(user.total_money_to_pay, user.initial_deposit,
                              SumPayments(s1, user_id), user.status)
          IN <<Begin, insert, Select, Select,
               UpdateBalanceStatus(user_id, rc.balance, rc.status), Commit>>

\* Admin.createPayment: insert, look the user up, reconcile, commit; a failure
\* is rolled back and returned as { success: false }
createPayment(paymentData, s, sq, failAt) ==
  LET user_id == paymentData.user_id
      insert == InsertPayment(user_id, OrZero(parseFloat(paymentData.amount)))
      s1 == ExecW(insert, s, sq).s
  IN IF user_id \notin DOMAIN s1.users
     THEN LET stmts == createPaymentStmts(paymentData, s, sq)
              r == RunTxn(stmts, TRUE, s, sq, failAt)
          IN [s |-> r.s, sq |-> r.sq, success |-> FALSE,
              failAt |-> IF r.failed THEN failAt ELSE 0, undone |-> r.undone, recon |-> NoRecon]
     ELSE LET user == s1.users[user_id]
              rc == reconcile(user.total_money_to_pay, user.initial_deposit,
                              SumPayments(s1, user_id), user.status)
              stmts == createPaymentStmts(paymentData, s, sq)
              r == RunTxn(stmts, FALSE, s, sq, failAt)
          IN [s |-> r.s, sq |-> r.sq, success |-> r.ok,
              failAt |-> IF r.failed THEN failAt ELSE 0, undone |-> r.undone,
              recon |-> IF r.ok
                        THEN [done |-> TRUE, id |-> user_id, prior |-> user.status,
                              payment |-> sq.payment + 1, total_paid |-> rc.total_paid,
                              user_balance |-> rc.balance, user_status |-> rc.status]
                        ELSE NoRecon]

\* ------------------------------------------------------- the request inputs
MaxStmts == 6

\* who asks for which plots: "A" for n1, "A, Z,B" for n2 (Z is no plot of the store)
NamePlotInputs == {<<"n1", <<"A">>>>, <<"n2", <<"A", ",", " ", "Z", ",", "B">>>>}
PricePerPlotInputs == {<<"1", ",", "2">>}
\* the number 0 is what the handler's validation rejects, the string "0" passes
DepositInputs == {JsStr(<<"0">>), JsNum(0), JsNum(1), JsNum(2)}
\* a payment of -1 is a refund; 0 is what the handler's validation rejects
AmountInputs == {JsNum(-1), JsNum(0), JsNum(1)}
UserIds == 1..MaxUsers

CreateRequests ==
  {[name |-> np[1], plot_taken |-> JsStr(np[2]), initial_deposit |-> d,
    price_per_plot |-> JsStr(p), rest |-> TRUE] :
     np \in NamePlotInputs, d \in DepositInputs, p \in PricePerPlotInputs}
  \cup
  {[name |-> NoName, plot_taken |-> JsStr(<<"A">>), initial_deposit |-> JsNum(1),
    price_per_plot |-> JsStr(<<"1">>), rest |-> TRUE],
   [name |-> "n1", plot_taken |-> JsStr(<<"A">>), initial_deposit |-> JsNum(1),
    price_per_plot |-> JsStr(<<"1">>), rest |-> FALSE]}

PaymentRequests ==
  [user_id : UserIds, amount : AmountInputs, date : {TRUE}]
  \cup [user_id : {1}, amount : {JsNum(1)}, date : {FALSE}]

\* request bodies of PUT and PATCH: the fields present are the record's fields
UpdateRequests ==
  {[plot_taken |-> <<"B">>],
   [initial_deposit |-> 1],
   [status |-> "Completed"]}

\* ------------------------------------------------------------- the handlers
NoBody == <<>>

\* failed: a statement of the request failed; undone: its transaction had
\* written before it was rolled back; success: the success flag of the
\* result; body: the request body of a create or an update, the account's
\* plot list as the delete handler read it
Response(op, id, code, failed, undone, success) ==
  [op |-> op, id |-> id, code |-> code, failed |-> failed, undone |-> undone,
   success |-> success, body |-> NoBody]

Init ==
  /\ users = <<>>
  /\ payments = {}
  /\ plots = [n \in StoreNumbers |-> AvailablePlot]
  /\ seq = [user |-> 0, payment |-> 0]
  /\ last = Response("none", 0, 0, FALSE, FALSE, FALSE)
  /\ recon = NoRecon

\* no exchange is on record: the server takes the next request
Idle == last.op = "none"

Install(s, sq) ==
  /\ users' = s.users
  /\ payments' = s.payments
  /\ plots' = s.plots
  /\ seq' = sq

\* a validation that looks at the name only
missingRequiredNameOnly(req) == req.name = NoName

\* if (!name || !contact || !plot_taken || !date_taken || !initial_deposit ||
\*     !price_per_plot || !payment_schedule || !total_balance)
missingRequired(req) ==
  \/ req.name = NoName \/ ~Truthy(req.plot_taken) \/ ~Truthy(req.initial_deposit)
  \/ ~Truthy(req.price_per_plot) \/ ~req.rest

\* app.post('/api/admin/users'); rest: contact, date_taken, payment_schedule and
\* total_balance are all present and non-empty
Create(req, failAt) ==
  /\ Idle
  /\ seq.user < MaxUsers
  /\ recon' = NoRecon
  /\ IF missingRequired(req)
     THEN /\ failAt = 0
          /\ last' = [Response("create", 0, 400, FALSE, FALSE, FALSE) EXCEPT !.body = req]
          /\ UNCHANGED <<users, payments, plots, seq>>
     ELSE LET total_money_to_pay == calculateTotalMoneyToPay(req.plot_taken, req.price_per_plot)
              r == createUser([name |-> req.name, plot_taken |-> req.plot_taken,
                               initial_deposit |-> req.initial_deposit,
                               total_money_to_pay |-> total_money_to_pay],
                              Stores, seq, failAt)
          IN /\ failAt = 0 \/ r.failAt = failAt
             /\ Install(r.s, r.sq)
             /\ last' = [IF r.threw THEN Response("create", 0, 500, TRUE, r.undone, FALSE)
                         ELSE Response("create", r.id, 201, FALSE, FALSE, TRUE)
                           EXCEPT !.body = req]

\* app.post('/api/admin/payments'): the handler answers 201 whatever the
\* success flag of createPayment's result says
RecordPayment(req, failAt) ==
  /\ Idle
  /\ IF ~Truthy(req.amount) \/ ~req.date
     THEN /\ failAt = 0
          /\ last' = Response("payment", req.user_id, 400, FALSE, FALSE, FALSE)
          /\ recon' = NoRecon
          /\ UNCHANGED <<users, payments, plots, seq>>
     ELSE LET r == createPayment(req, Stores, seq, failAt)
          IN /\ failAt = 0 \/ r.failAt = failAt
             /\ Install(r.s, r.sq)
             /\ last' = Response("payment", req.user_id, 201, r.failAt # 0, r.undone, r.success)
             /\ recon' = r.recon

\* the statements of getUserById, which the update and delete handlers run first
GetUserStmts == 3

\* the fields of the request that the handler copies into its UPDATE
allowedFields(method) ==
  IF method = "put"
  THEN {"name", "contact", "plot_taken", "date_taken", "initial_deposit",
        "price_per_plot", "payment_schedule", "total_money_to_pay", "status"}
  ELSE {"name", "contact", "plot_taken", "date_taken", "initial_deposit",
        "price_per_plot", "payment_schedule", "total_money_to_pay"}

\* if (updateData.plot_taken !== undefined) { ... }: the plots of the
\* account's name are reset, the plots of the new list are sold
plotStmts(updateData, existingUser, updatedUser) ==
  IF "plot_taken" \in DOMAIN updateData
  THEN <<ResetByOwner(existingUser.name)>> \o
       (IF updateData.plot_taken # <<>> /\ trim(updateData.plot_taken) # <<>>
        THEN [i \in 1..Len(plotNumbersOf(updateData.plot_taken)) |->
                Sell(updatedUser.name, plotNumbersOf(updateData.plot_taken)[i])]
        ELSE <<>>)
  ELSE <<>>

\* the statements of the transaction of app.put / app.patch
updateStmts(method, userId, updateData, existingUser, s) ==
  LET fields == [c \in DOMAIN updateData \cap allowedFields(method) |-> updateData[c]]
      updatedUser == Overwrite(s.users[userId], fields)
      rc == reconcile(updatedUser.total_money_to_pay, updatedUser.initial_deposit,
                      SumPayments(s, userId), updatedUser.status)
      balanceStmts ==
        IF "initial_deposit" \in DOMAIN updateData \/ "total_money_to_pay" \in DOMAIN updateData
        THEN <<Select, UpdateBalanceStatus(userId, rc.balance, rc.status)>>
        ELSE <<>>
  IN <<Begin, UpdateUserFields(userId, fields)>>
       \o plotStmts(updateData, existingUser, updatedUser) \o balanceStmts \o <<Commit>>

\* the statements of app.delete's transaction
deleteStmts(userId, existingUser) ==
  <<Begin>> \o
  (IF existingUser.plot_taken # <<>>
   THEN [i \in 1..Len(plotNumbersOf(existingUser.plot_taken)) |->
           ResetByNumber(plotNumbersOf(existingUser.plot_taken)[i])]
   ELSE <<>>)
  \o <<DeletePayments(userId), DeleteUser(userId), Commit>>

\* what app.put, app.patch and app.delete share: the existence check through
\* getUserById, then  require('./config/database').connect()  and the
\* transaction stmts(existingUser, tables); a module without a connect member
\* makes the call a TypeError, which the outer catch answers with 500
Mutate(op, id, updateData, failAt) ==
  LET g == getUserById(id, Stores, seq, failAt)
      body == IF op # "delete" THEN updateData
              ELSE IF g.found THEN [plot_taken |-> g.user.plot_taken] ELSE NoBody
      stmts(existingUser, s) ==
        IF op = "delete" THEN deleteStmts(id, existingUser)
        ELSE updateStmts(op, id, updateData, existingUser, s)
  IN /\ Idle
     /\ recon' = NoRecon
     /\ IF g.threw
        THEN /\ failAt = g.failAt
             /\ Install(g.s, seq)
             /\ last' = [Response(op, id, 500, TRUE, FALSE, FALSE) EXCEPT !.body = body]
        ELSE IF ~g.found
        THEN /\ failAt = 0
             /\ Install(g.s, seq)
             /\ last' = [Response(op, id, 404, FALSE, FALSE, FALSE) EXCEPT !.body = body]
        ELSE IF "connect" \notin databaseExports
        THEN /\ failAt = 0
             /\ Install(g.s, seq)
             /\ last' = [Response(op, id, 500, FALSE, FALSE, FALSE) EXCEPT !.body = body]
        ELSE LET all == stmts(g.user, g.s)
                 r == RunTxn(all, FALSE, g.s, seq, failAt - GetUserStmts)
             IN /\ failAt = 0 \/ Fails(all, failAt - GetUserStmts)
                /\ Install(r.s, r.sq)
                /\ last' = [Response(op, id, IF r.ok THEN 200 ELSE 500, r.failed, r.undone, r.ok)
                              EXCEPT !.body = body]

\* app.put('/api/admin/users/:id') and app.patch('/api/admin/users/:id')
Update(method, id, updateData, failAt) == Mutate(method, id, updateData, failAt)

\* app.delete('/api/admin/users/:id')
Delete(id, failAt) == Mutate("delete", id, NoBody, failAt)

\* the exchange on record is dropped before the next request is taken, so
\* that the record of the past does not tell two states of the stores apart
NextRequest ==
  /\ ~Idle
  /\ last' = Response("none", 0, 0, FALSE, FALSE, FALSE)
  /\ recon' = NoRecon
  /\ UNCHANGED <<users, payments, plots, seq>>

Failures == 0..MaxStmts

Next ==
  \/ \E req \in CreateRequests, failAt \in Failures : Create(req, failAt)
  \/ \E req \in PaymentRequests, failAt \in Failures :
        seq.payment < MaxPayments /\ RecordPayment(req, failAt)
  \/ \E method \in {"put", "patch"}, id \in UserIds, updateData \in UpdateRequests,
        failAt \in Failures : Update(method, id, updateData, failAt)
  \/ \E id \in UserIds, failAt \in Failures : Delete(id, failAt)
  \/ NextRequest

Spec == Init /\ [][Next]_vars

\* ------------------------------------- the same server, more payments
\* fewer kinds of accounts, so that an account can get a second payment
MaxRows == 2

LedgerCreateRequests ==
  {req \in CreateRequests : req.initial_deposit = JsNum(1)}

NextLedger ==
  \/ \E req \in LedgerCreateRequests, failAt \in Failures : Create(req, failAt)
  \/ \E req \in PaymentRequests, failAt \in Failures :
        seq.payment < MaxRows /\ RecordPayment(req, failAt)
  \/ \E method \in {"put", "patch"}, id \in UserIds, updateData \in UpdateRequests,
        failAt \in Failures : Update(method, id, updateData, failAt)
  \/ \E id \in UserIds, failAt \in Failures : Delete(id, failAt)
  \/ NextRequest

SpecLedger == Init /\ [][NextLedger]_vars

\* ------------------------------------- the same server, more updates
\* request bodies that rename the account or name a plot the store has not
MoreUpdateRequests ==
  {[plot_taken |-> <<"Z", ",", "B">>],
   [name |-> "n3"],
   [name |-> "n3", plot_taken |-> <<"B">>]}

NextUpdates ==
  \/ \E req \in LedgerCreateRequests, failAt \in Failures : Create(req, failAt)
  \/ \E method \in {"put", "patch"}, id \in UserIds,
        updateData \in UpdateRequests \cup MoreUpdateRequests, failAt \in Failures :
          Update(method, id, updateData, failAt)
  \/ NextRequest

SpecUpdates == Init /\ [][NextUpdates]_vars

\* ------------------------------- the plot statements of an update, applied
\* The plot statements of app.put / app.patch for a request whose plot_taken
\* is the plot list the account has, run on stores that Create has filled.
ApplyPlotStmts(id) ==
  /\ Idle
  /\ id \in DOMAIN users
  /\ LET updateData == [plot_taken |-> users[id].plot_taken]
         stmts == plotStmts(updateData, users[id], Overwrite(users[id], updateData))
         conn == ExecAll(stmts, Lease(Stores, seq), Len(stmts))
     IN /\ plots' = conn.w.plots
        /\ last' = [Response("plots", id, 200, FALSE, FALSE, TRUE) EXCEPT !.body = updateData]
  /\ recon' = NoRecon
  /\ UNCHANGED <<users, payments, seq>>

\* the plot statements of app.delete's transaction, run on the stores
ApplyDeletePlotStmts(id) ==
  /\ Idle
  /\ id \in DOMAIN users
  /\ LET all == deleteStmts(id, users[id])
         stmts == SubSeq(all, 2, Len(all) - 3)
         conn == ExecAll(stmts, Lease(Stores, seq), Len(stmts))
     IN /\ plots' = conn.w.plots
        /\ last' = [Response("plotsReset", id, 200, FALSE, FALSE, TRUE)
                      EXCEPT !.body = [plot_taken |-> users[id].plot_taken]]
  /\ recon' = NoRecon
  /\ UNCHANGED <<users, payments, seq>>

NextPlots ==
  \/ \E req \in CreateRequests, failAt \in Failures : Create(req, failAt)
  \/ \E id \in UserIds : ApplyPlotStmts(id)
  \/ \E id \in UserIds : ApplyDeletePlotStmts(id)
  \/ NextRequest

SpecPlots == Init /\ [][NextPlots]_vars

\* ------------------------------------------- reconciliation as a function
MaxMoney == 3
MaxLen == 2

Money == 0..MaxMoney
PaymentLists == UNION {[1..n -> Money] : n \in 0..MaxLen}
Statuses == {"Active", "Completed", "Suspended"}

InitReconcile ==
  /\ users = <<>>
  /\ payments = {}
  /\ plots = [n \in StoreNumbers |-> AvailablePlot]
  /\ seq = [user |-> 0, payment |-> 0]
  /\ last = Response("none", 0, 0, FALSE, FALSE, FALSE)
  /\ recon \in [done : {FALSE}, total_money_to_pay : Money, initial_deposit : Money,
                payments : PaymentLists, prior : Statuses,
                total_paid : {0}, user_balance : {0}, user_status : {"Active"}]

ApplyReconcile ==
  /\ ~recon.done
  /\ LET rc == reconcile(recon.total_money_to_pay, recon.initial_deposit,
                         SumSeq(recon.payments), recon.prior)
     IN recon' = [recon EXCEPT !.done = TRUE, !.total_paid = rc.total_paid,
                               !.user_balance = rc.balance, !.user_status = rc.status]
  /\ UNCHANGED <<users, payments, plots, seq, last>>

NextReconcile == ApplyReconcile

SpecReconcile == InitReconcile /\ [][NextReconcile]_vars

\* ------------------------------------ the total amount due as a function
MaxChars == 3

PlotChars == {"A", ",", " "}
PriceChars == {"1", "2", ",", "x"}
\* the non-empty strings: what the validation of app.post lets through
PlotStrings == UNION {[1..n -> PlotChars] : n \in 1..MaxChars}
PriceStrings == UNION {[1..n -> PriceChars] : n \in 1..MaxChars}

InitTotal ==
  /\ users = <<>>
  /\ payments = {}
  /\ plots = [n \in StoreNumbers |-> AvailablePlot]
  /\ seq = [user |-> 0, payment |-> 0]
  /\ last = Response("none", 0, 0, FALSE, FALSE, FALSE)
  /\ recon \in [done : {FALSE}, plot_taken : PlotStrings, price_per_plot : PriceStrings,
                total_money_to_pay : {0}]

\* const total_money_to_pay = await Admin.calculateTotalMoneyToPay(plot_taken, price_per_plot)
ApplyTotal ==
  /\ ~recon.done
  /\ recon' = [recon EXCEPT !.done = TRUE,
                 !.total_money_to_pay = calculateTotalMoneyToPay(JsStr(recon.plot_taken),
                                                                 JsStr(recon.price_per_plot))]
  /\ UNCHANGED <<users, payments, plots, seq, last>>

NextTotal == ApplyTotal

SpecTotal == InitTotal /\ [][NextTotal]_vars

\* ------------------------------ one request, statement by statement
\* The connection of one request: leased, used by the try block one awaited
\* query at a time, rolled back in the catch block, released in the finally
\* block.  recon holds the request's position.
LeaseRequest == [name |-> "n1", plot_taken |-> JsStr(<<"A">>), initial_deposit |-> JsNum(1),
                 total_money_to_pay |-> 2]

\* the stores before the request: empty, or with one account
LeaseStores ==
  LET empty == [s |-> [users |-> <<>>, payments |-> {},
                       plots |-> [n \in StoreNumbers |-> AvailablePlot]],
                sq |-> [user |-> 0, payment |-> 0]]
      one == createUser(LeaseRequest, empty.s, empty.sq, 0)
  IN {empty, [s |-> one.s, sq |-> one.sq]}

\* member: the member of the database module the code calls for its client;
\* commits, rollbacks: the COMMIT and ROLLBACK statements sent; committed: a
\* COMMIT resolved;
\* rejected: the handler answers before it asks for a client; throws: the try
\* block throws after its last statement
Job(op, member, rejected, stmts, throws) ==
  [op |-> op, member |-> member, rejected |-> rejected,
   stmts |-> [i \in 1..Len(stmts) |-> stmts[i].q], throws |-> throws,
   pc |-> "lease", i |-> 0, held |-> 0, leases |-> 0, releases |-> 0,
   failedAt |-> 0, rollbackFailed |-> FALSE,
   commits |-> 0, committed |-> FALSE, rollbacks |-> 0]

Jobs(s, sq) ==
  {Job("create", "getClient", missingRequired(req),
       createUserStmts([name |-> req.name, plot_taken |-> req.plot_taken,
                        initial_deposit |-> req.initial_deposit,
                        total_money_to_pay |->
                          calculateTotalMoneyToPay(req.plot_taken, req.price_per_plot)]),
       FALSE) : req \in CreateRequests}
  \cup
  {Job("payment", "getClient", ~Truthy(req.amount) \/ ~req.date,
       createPaymentStmts(req, s, sq), req.user_id \notin DOMAIN s.users) :
     req \in PaymentRequests}
  \cup
  {LET g == getUserById(id, s, sq, 0)
   IN Job(method, "connect", ~g.found,
          IF g.found THEN updateStmts(method, id, updateData, g.user, g.s) ELSE <<>>, FALSE) :
     method \in {"put", "patch"}, id \in UserIds, updateData \in UpdateRequests}
  \cup
  {LET g == getUserById(id, s, sq, 0)
   IN Job("delete", "connect", ~g.found,
          IF g.found THEN deleteStmts(id, g.user) ELSE <<>>, FALSE) : id \in UserIds}

InitLease ==
  /\ \E st \in LeaseStores :
       /\ users = st.s.users /\ payments = st.s.payments /\ plots = st.s.plots /\ seq = st.sq
       /\ recon \in Jobs(st.s, st.sq)
  /\ last = Response("none", 0, 0, FALSE, FALSE, FALSE)

\* const client = await db.getClient()  /  await require('./config/database').connect()
LeaseClient ==
  /\ recon.pc = "lease"
  /\ recon' = IF recon.rejected \/ recon.member \notin databaseExports
              THEN [recon EXCEPT !.pc = "done"]
              ELSE [recon EXCEPT !.pc = "try", !.held = 1, !.leases = 1]
  /\ UNCHANGED <<users, payments, plots, seq, last>>

\* pool.connect() rejects (connectionTimeoutMillis): there is no client
LeaseFails ==
  /\ recon.pc = "lease" /\ ~recon.rejected /\ recon.member \in databaseExports
  /\ recon' = [recon EXCEPT !.pc = "done"]
  /\ UNCHANGED <<users, payments, plots, seq, last>>

\* await client.query(...) of the try block resolves
QueryOk ==
  /\ recon.pc = "try" /\ recon.i < Len(recon.stmts)
  /\ recon' = [recon EXCEPT !.i = recon.i + 1,
                 !.commits = IF recon.stmts[recon.i + 1] = "COMMIT" THEN @ + 1 ELSE @,
                 !.committed = @ \/ recon.stmts[recon.i + 1] = "COMMIT",
                 !.pc = IF recon.i + 1 < Len(recon.stmts) THEN "try"
                        ELSE IF recon.throws THEN "catch" ELSE "finally"]
  /\ UNCHANGED <<users, payments, plots, seq, last>>

\* a rejected query whose error is swallowed: the try block goes on
QueryFailsSwallowed ==
  /\ recon.pc = "try" /\ recon.i < Len(recon.stmts)
  /\ recon' = [recon EXCEPT !.failedAt = recon.i + 1, !.i = recon.i + 1,
                 !.commits = IF recon.stmts[recon.i + 1] = "COMMIT" THEN @ + 1 ELSE @,
                 !.pc = IF recon.i + 1 < Len(recon.stmts) THEN "try" ELSE "finally"]
  /\ UNCHANGED <<users, payments, plots, seq, last>>

\* await client.query(...) of the try block rejects
QueryFails ==
  /\ recon.pc = "try" /\ recon.i < Len(recon.stmts)
  /\ recon' = [recon EXCEPT !.failedAt = recon.i + 1, !.pc = "catch",
                 !.commits = IF recon.stmts[recon.i + 1] = "COMMIT" THEN @ + 1 ELSE @]
  /\ UNCHANGED <<users, payments, plots, seq, last>>

\* a catch block whose failing ROLLBACK leaves the function past its release
CatchSkippingFinally ==
  /\ recon.pc = "catch"
  /\ \E ok \in BOOLEAN :
       recon' = [recon EXCEPT !.rollbackFailed = ~ok, !.rollbacks = @ + 1,
                              !.pc = IF ok THEN "finally" ELSE "done"]
  /\ UNCHANGED <<users, payments, plots, seq, last>>

\* catch (error) { await client.query('ROLLBACK'); ... }: the ROLLBACK
\* resolves or rejects, and the finally block runs in both cases
Catch ==
  /\ recon.pc = "catch"
  /\ \E ok \in BOOLEAN :
       recon' = [recon EXCEPT !.rollbackFailed = ~ok, !.rollbacks = @ + 1, !.pc = "finally"]
  /\ UNCHANGED <<users, payments, plots, seq, last>>

\* finally { client.release(); }
Finally ==
  /\ recon.pc = "finally"
  /\ recon' = [recon EXCEPT !.held = recon.held - 1, !.releases = recon.releases + 1,
                            !.pc = "done"]
  /\ UNCHANGED <<users, payments, plots, seq, last>>

NextLease == LeaseClient \/ LeaseFails \/ QueryOk \/ QueryFails \/ Catch \/ Finally

\* an awaited promise settles and the function goes on
SpecLease == InitLease /\ [][NextLease]_vars /\ WF_vars(NextLease)

\* ------------------------ a payment and a delete, statement by statement
\* One recordPayment and one Delete whose awaited statements interleave.  The
\* stores are the committed tables; what an open transaction has written is
\* kept in its record until COMMIT (READ COMMITTED: a statement sees what is
\* committed and what its own transaction wrote).  An UPDATE or DELETE of a
\* row waits while another open transaction has written that row.
NoUser == [name |-> NoName, plot_taken |-> <<>>, initial_deposit |-> 0,
           total_money_to_pay |-> 0, total_balance |-> 0, status |-> "Active"]

PayJob(user_id, amount) ==
  [pc |-> "start", user_id |-> user_id, amount |-> amount, row |-> 0,
   user |-> NoUser, balance |-> 0, status |-> "Active", success |-> FALSE]

DeleteJob(id) ==
  [pc |-> "start", id |-> id, user |-> NoUser, balance |-> 0, setStatus |-> FALSE,
   status |-> "Active", rows |-> {}, code |-> 0, during |-> FALSE]

InitConcurrent ==
  /\ \E st \in LeaseStores :
       /\ users = st.s.users /\ payments = st.s.payments /\ plots = st.s.plots /\ seq = st.sq
  /\ last = Response("none", 0, 0, FALSE, FALSE, FALSE)
  /\ recon \in {[pay |-> PayJob(req.user_id, OrZero(parseFloat(req.amount))), del |-> DeleteJob(id)] :
                  req \in {r \in PaymentRequests : Truthy(r.amount) /\ r.date}, id \in UserIds}

\* the payment requests of the record
Payers == {"pay", "pay2"} \cap DOMAIN recon

\* a payment's transaction holds the lock of the account row
PayHoldsRow(id) ==
  \E who \in Payers :
    recon[who].pc = "updated" /\ recon[who].user_id = id /\ id \in DOMAIN users
\* the delete's transaction holds the lock of the account row
DeleteHoldsRow(id) ==
  "del" \in DOMAIN recon /\ recon.del.pc = "userDeleted" /\ recon.del.id = id

\* const client = await db.getClient(); await client.query('BEGIN')
PayBegin(who) ==
  /\ recon[who].pc = "start"
  /\ recon' = [recon EXCEPT ![who].pc = "begun"]
  /\ UNCHANGED <<users, payments, plots, seq, last>>

\* INSERT INTO payments ... RETURNING *
PayInsert(who) ==
  /\ recon[who].pc = "begun"
  /\ seq' = [seq EXCEPT !.payment = seq.payment + 1]
  /\ recon' = [recon EXCEPT ![who].pc = "inserted", ![who].row = seq.payment + 1]
  /\ UNCHANGED <<users, payments, plots, last>>

\* SELECT * FROM usersTable WHERE id = $1; if (!user) throw; the catch block
\* rolls back and returns { success: false }
PaySelectUser(who) ==
  /\ recon[who].pc = "inserted"
  /\ recon' = IF recon[who].user_id \in DOMAIN users
              THEN [recon EXCEPT ![who].pc = "userRead", ![who].user = users[recon[who].user_id]]
              ELSE [recon EXCEPT ![who].pc = "done"]
  /\ UNCHANGED <<users, payments, plots, seq, last>>

\* SELECT * FROM payments WHERE user_id = $1, and the reconciliation
PaySelectPayments(who) ==
  /\ recon[who].pc = "userRead"
  /\ LET pay == recon[who]
         rc == reconcile(pay.user.total_money_to_pay, pay.user.initial_deposit,
                         SumPayments(Stores, pay.user_id) + pay.amount, pay.user.status)
     IN recon' = [recon EXCEPT ![who].pc = "paymentsRead", ![who].balance = rc.balance,
                               ![who].status = rc.status]
  /\ UNCHANGED <<users, payments, plots, seq, last>>

\* UPDATE usersTable SET total_balance = $1, status = $2 WHERE id = $3
PayUpdateUser(who) ==
  /\ recon[who].pc = "paymentsRead"
  /\ ~DeleteHoldsRow(recon[who].user_id) /\ ~PayHoldsRow(recon[who].user_id)
  /\ recon' = [recon EXCEPT ![who].pc = "updated"]
  /\ UNCHANGED <<users, payments, plots, seq, last>>

\* COMMIT: the inserted row and the updated account row, if the row is still
\* there, become the committed tables
PayCommit(who) ==
  /\ recon[who].pc = "updated"
  /\ LET pay == recon[who]
         s1 == ExecW(UpdateBalanceStatus(pay.user_id, pay.balance, pay.status), Stores, seq).s
     IN /\ users' = s1.users
        /\ payments' = withPaymentRow(payments,
                          [id |-> pay.row, user_id |-> pay.user_id, amount |-> pay.amount])
  /\ recon' = [recon EXCEPT ![who].pc = "done", ![who].success = TRUE]
  /\ UNCHANGED <<plots, seq, last>>

\* a statement of the try block rejects: ROLLBACK, { success: false }
PayFails(who) ==
  /\ recon[who].pc \in {"begun", "inserted", "userRead", "paymentsRead", "updated"}
  /\ recon' = [recon EXCEPT ![who].pc = "done"]
  /\ UNCHANGED <<users, payments, plots, seq, last>>

\* app.delete('/api/admin/users/:id'), one awaited step at a time:
\* getUserById's SELECTs, its write-back through the pool, connect(), BEGIN,
\* the plot resets, DELETE payments, DELETE usersTable, COMMIT
DeleteStep ==
  LET del == recon.del
      id == del.id
      g == getUserById(id, Stores, seq, 0)
  IN /\ last' = last /\ seq' = seq
     /\ IF del.pc = "start"
        THEN /\ recon' = IF g.found
                         THEN [recon EXCEPT !.del.pc = "read", !.del.user = g.user,
                                 !.del.balance = g.s.users[id].total_balance,
                                 !.del.status = g.s.users[id].status,
                                 !.del.setStatus = (g.s.users[id].status # users[id].status),
                                 !.del.during = (recon.pay.pc \notin {"start", "done"})]
                         ELSE [recon EXCEPT !.del.pc = "done", !.del.code = 404]
             /\ UNCHANGED <<users, payments, plots>>
        ELSE IF del.pc = "read"
        THEN /\ ~PayHoldsRow(id)
             /\ users' = ExecW(IF del.setStatus
                                THEN UpdateBalanceStatus(id, del.balance, del.status)
                                ELSE UpdateBalance(id, del.balance), Stores, seq).s.users
             /\ recon' = [recon EXCEPT !.del.pc = "checked"]
             /\ UNCHANGED <<payments, plots>>
        ELSE IF del.pc = "checked"
        THEN /\ recon' = IF "connect" \notin databaseExports
                         THEN [recon EXCEPT !.del.pc = "done", !.del.code = 500]
                         ELSE [recon EXCEPT !.del.pc = "begun"]
             /\ UNCHANGED <<users, payments, plots>>
        ELSE IF del.pc = "begun"
        THEN /\ recon' = [recon EXCEPT !.del.pc = "plotsReset"]
             /\ UNCHANGED <<users, payments, plots>>
        ELSE IF del.pc = "plotsReset"
        THEN /\ recon' = [recon EXCEPT !.del.pc = "paymentsDeleted",
                                       !.del.rows = {p \in payments : p.user_id = id}]
             /\ UNCHANGED <<users, payments, plots>>
        ELSE IF del.pc = "paymentsDeleted"
        THEN /\ ~PayHoldsRow(id)
             /\ recon' = [recon EXCEPT !.del.pc = "userDeleted"]
             /\ UNCHANGED <<users, payments, plots>>
        ELSE /\ del.pc = "userDeleted"
             /\ LET stmts == deleteStmts(id, del.user)
                    plotResets == SubSeq(stmts, 2, Len(stmts) - 3)
                    conn == ExecAll(plotResets \o <<DeleteUser(id)>>, Lease(Stores, seq),
                                    Len(plotResets) + 1)
                IN /\ users' = conn.w.users
                   /\ plots' = conn.w.plots
                   /\ payments' = payments \ del.rows
             /\ recon' = [recon EXCEPT !.del.pc = "done", !.del.code = 200]

NextConcurrent ==
  \/ PayBegin("pay") \/ PayInsert("pay") \/ PaySelectUser("pay") \/ PaySelectPayments("pay")
  \/ PayUpdateUser("pay") \/ PayCommit("pay") \/ PayFails("pay") \/ DeleteStep

SpecConcurrent == InitConcurrent /\ [][NextConcurrent]_vars

\* ----------------------------------- two payments, statement by statement
\* Two recordPayment requests whose awaited statements interleave.
InitTwoPayments ==
  /\ \E st \in LeaseStores :
       /\ users = st.s.users /\ payments = st.s.payments /\ plots = st.s.plots /\ seq = st.sq
  /\ last = Response("none", 0, 0, FALSE, FALSE, FALSE)
  /\ recon \in {[pay |-> PayJob(r1.user_id, OrZero(parseFloat(r1.amount))),
                  pay2 |-> PayJob(r2.user_id, OrZero(parseFloat(r2.amount)))] :
                  r1, r2 \in {r \in PaymentRequests : Truthy(r.amount) /\ r.date}}

NextTwoPayments ==
  \E who \in {"pay", "pay2"} :
    \/ PayBegin(who) \/ PayInsert(who) \/ PaySelectUser(who) \/ PaySelectPayments(who)
    \/ PayUpdateUser(who) \/ PayCommit(who) \/ PayFails(who)

SpecTwoPayments == InitTwoPayments /\ [][NextTwoPayments]_vars

\* ------------------------------------ two updates, statement by statement
\* Two requests of app.put / app.patch for two accounts whose awaited steps
\* interleave: getUserById's SELECTs, its write-back through the pool,
\* connect(), and then the statements of the transaction one by one.  A
\* statement that writes a row waits while the other open transaction has
\* written that row; a transaction's writes reach the stores at its COMMIT.
RaceRequest == [name |-> "n2", plot_taken |-> JsStr(<<"B">>), initial_deposit |-> JsNum(1),
                total_money_to_pay |-> 2]

\* the stores before the two requests: account 1 holds plot A, account 2 plot B
RaceStores ==
  LET one == CHOOSE st \in LeaseStores : st.s.users # <<>>
      two == createUser(RaceRequest, one.s, one.sq, 0)
  IN [s |-> two.s, sq |-> two.sq]

RaceRequests == {[plot_taken |-> <<"A">>], [plot_taken |-> <<"B">>]}

UpdateJob(method, id, body) ==
  [pc |-> "start", method |-> method, id |-> id, body |-> body, user |-> NoUser,
   balance |-> 0, setStatus |-> FALSE, status |-> "Active", stmts |-> <<>>, done |-> 0,
   code |-> 0]

InitRace ==
  /\ \E st \in {RaceStores} :
       /\ users = st.s.users /\ payments = st.s.payments /\ plots = st.s.plots /\ seq = st.sq
  /\ last = Response("none", 0, 0, FALSE, FALSE, FALSE)
  /\ recon \in {[a |-> UpdateJob(ma, 1, ba), b |-> UpdateJob(mb, 2, bb), order |-> <<>>] :
                  ma \in {"put", "patch"}, mb \in {"put", "patch"},
                  ba \in RaceRequests, bb \in RaceRequests}

\* the rows a statement writes
rowsOf(st) ==
  CASE st.q = "UPDATE plots Sold WHERE number" -> {<<"plot", st.number>>}
    [] st.q = "UPDATE plots Available WHERE owner" ->
         {<<"plot", n>> : n \in {m \in DOMAIN plots : plots[m].owner = st.owner}}
    [] st.q \in {"UPDATE usersTable SET fields", "UPDATE usersTable SET total_balance, status"} ->
         {<<"user", st.id>>}
    [] OTHER -> {}

\* the rows an open transaction has written
Held(job) ==
  IF job.pc = "txn" THEN UNION {rowsOf(job.stmts[k]) : k \in 2..job.done} ELSE {}

\* app.put / app.patch, one awaited step at a time
UpdateStep(who) ==
  LET me == recon[who]
      it == recon[IF who = "a" THEN "b" ELSE "a"]
      id == me.id
      g == getUserById(id, Stores, seq, 0)
  IN /\ last' = last /\ seq' = seq /\ payments' = payments
     /\ IF me.pc = "start"
        THEN /\ recon' = IF g.found
                         THEN [recon EXCEPT ![who].pc = "read", ![who].user = g.user,
                                 ![who].balance = g.s.users[id].total_balance,
                                 ![who].status = g.s.users[id].status,
                                 ![who].setStatus = (g.s.users[id].status # users[id].status)]
                         ELSE [recon EXCEPT ![who].pc = "done", ![who].code = 404]
             /\ UNCHANGED <<users, plots>>
        ELSE IF me.pc = "read"
        THEN /\ <<"user", id>> \notin Held(it)
             /\ users' = ExecW(IF me.setStatus
                                THEN UpdateBalanceStatus(id, me.balance, me.status)
                                ELSE UpdateBalance(id, me.balance), Stores, seq).s.users
             /\ recon' = [recon EXCEPT ![who].pc = "checked"]
             /\ UNCHANGED plots
        ELSE IF me.pc = "checked"
        THEN /\ recon' = IF "connect" \notin databaseExports
                         THEN [recon EXCEPT ![who].pc = "done", ![who].code = 500]
                         ELSE [recon EXCEPT ![who].pc = "txn", ![who].done = 1,
                                 ![who].stmts = updateStmts(me.method, id, me.body, me.user, Stores)]
             /\ UNCHANGED <<users, plots>>
        ELSE /\ me.pc = "txn"
             /\ IF me.done + 1 = Len(me.stmts)
                THEN LET conn == ExecAll(SubSeq(me.stmts, 2, me.done), Lease(Stores, seq),
                                         me.done - 1)
                     IN /\ users' = conn.w.users
                        /\ plots' = conn.w.plots
                        /\ recon' = [recon EXCEPT ![who].pc = "done", ![who].code = 200,
                                                  !.order = Append(recon.order, who)]
                ELSE /\ rowsOf(me.stmts[me.done + 1]) \cap Held(it) = {}
                     /\ recon' = [recon EXCEPT ![who].done = me.done + 1]
                     /\ UNCHANGED <<users, plots>>

NextRace == \E who \in {"a", "b"} : UpdateStep(who)

SpecRace == InitRace /\ [][NextRace]_vars

\* -------------------------------- layout plans, statement by statement
\* routes/LayoutPlan.js over models/LayoutPlan.js: two requests at a time, each
\* an upload (router.post('/')) or a deletion (router.delete('/:id')); recon
\* holds the layout_plans table, the files of the upload directory and the two
\* requests.
MaxUploads == 3

\* req.body.layoutName of an upload
LayoutNames == {<<>>, <<" ">>, <<"x">>, <<" ", "x">>, <<"y">>}

LayoutIds == 1..MaxUploads

NoLayoutJob == [pc |-> "idle", op |-> "none", name |-> <<>>, file |-> 0, id |-> 0, code |-> 0]

\* res.status(code).json(...): the request is over
Answered(job, code) == [NoLayoutJob EXCEPT !.op = job.op, !.pc = "done", !.code = code]

InitLayout ==
  /\ users = <<>> /\ payments = {} /\ plots = [n \in StoreNumbers |-> AvailablePlot]
  /\ seq = [user |-> 0, payment |-> 0]
  /\ last = Response("none", 0, 0, FALSE, FALSE, FALSE)
  /\ recon = [plans |-> {}, files |-> {}, nextId |-> 0, nextFile |-> 0,
              a |-> NoLayoutJob, b |-> NoLayoutJob]

\* SELECT * FROM layout_plans WHERE layout_name = $1
getLayoutPlanByName(plans, layoutName) == {row \in plans : row.layout_name = layoutName}

\* SELECT * FROM layout_plans WHERE id = $1
getLayoutPlanById(plans, id) == {row \in plans : row.id = id}

\* INSERT INTO layout_plans (layout_name, ..., file_path, ...) RETURNING *
createLayoutPlan(plans, id, layoutData) ==
  plans \cup {[id |-> id, layout_name |-> layoutData.layout_name, file_path |-> layoutData.filePath]}

\* DELETE FROM layout_plans WHERE id = $1
deleteLayoutPlan(plans, id) == {row \in plans : row.id # id}

\* fs.unlinkSync
unlinkSync(files, path) == files \ {path}

\* upload.single('layoutPlan') stores the file under a fresh name, then the
\* handler up to its first await: no file 400; no name, or a name of spaces
\* only, removes the file and answers 400; else the lookup by name is issued
UploadStart(who, layoutName, hasFile) ==
  /\ recon[who].pc \in {"idle", "done"}
  /\ recon.nextFile < MaxUploads
  /\ LET path == recon.nextFile + 1
         job == [NoLayoutJob EXCEPT !.op = "upload", !.name = layoutName, !.file = path]
     IN recon' =
          IF ~hasFile
          THEN [recon EXCEPT ![who] = Answered(job, 400)]
          ELSE IF layoutName = <<>> \/ trim(layoutName) = <<>>
          THEN [recon EXCEPT !.nextFile = path, ![who] = Answered(job, 400)]
          ELSE [recon EXCEPT !.nextFile = path, !.files = @ \cup {path},
                             ![who] = [job EXCEPT !.pc = "lookup"]]
  /\ UNCHANGED <<users, payments, plots, seq, last>>

\* await LayoutPlan.getLayoutPlanByName(req.body.layoutName) and what follows
\* it: a row with the name removes the file and answers 400; else the INSERT
\* is issued
UploadLookup(who) ==
  /\ recon[who].pc = "lookup"
  /\ recon' =
       IF getLayoutPlanByName(recon.plans, recon[who].name) # {}
       THEN [recon EXCEPT !.files = unlinkSync(@, recon[who].file),
                          ![who] = Answered(recon[who], 400)]
       ELSE [recon EXCEPT ![who].pc = "insert"]
  /\ UNCHANGED <<users, payments, plots, seq, last>>

\* await LayoutPlan.createLayoutPlan({layout_name: req.body.layoutName.trim(), ...})
UploadInsert(who) ==
  /\ recon[who].pc = "insert"
  /\ LET id == recon.nextId + 1
         layoutData == [layout_name |-> trim(recon[who].name), filePath |-> recon[who].file]
     IN recon' = [recon EXCEPT !.nextId = id,
                               !.plans = createLayoutPlan(@, id, layoutData),
                               ![who] = Answered(recon[who], 200)]
  /\ UNCHANGED <<users, payments, plots, seq, last>>

\* a query of the upload throws: the catch removes the file and answers 500
UploadFails(who) ==
  /\ recon[who].pc \in {"lookup", "insert"}
  /\ recon' = [recon EXCEPT !.files = unlinkSync(@, recon[who].file),
                            ![who] = Answered(recon[who], 500)]
  /\ UNCHANGED <<users, payments, plots, seq, last>>

\* router.delete('/:id') up to its first await
DeletePlanStart(who, id) ==
  /\ recon[who].pc \in {"idle", "done"}
  /\ recon.plans # {}
  /\ recon' = [recon EXCEPT ![who] = [NoLayoutJob EXCEPT !.op = "delete", !.pc = "byId", !.id = id]]
  /\ UNCHANGED <<users, payments, plots, seq, last>>

\* await LayoutPlan.getLayoutPlanById(req.params.id) and what follows it: no
\* row 404; else the file is removed and the DELETE is issued
DeletePlanLookup(who) ==
  /\ recon[who].pc = "byId"
  /\ LET found == getLayoutPlanById(recon.plans, recon[who].id)
     IN recon' =
          IF found = {}
          THEN [recon EXCEPT ![who] = Answered(recon[who], 404)]
          ELSE LET layoutPlan == CHOOSE row \in found : TRUE
               IN [recon EXCEPT !.files = unlinkSync(@, layoutPlan.file_path),
                                ![who].pc = "deleteRow"]
  /\ UNCHANGED <<users, payments, plots, seq, last>>

\* await LayoutPlan.deleteLayoutPlan(req.params.id)
DeletePlanRow(who) ==
  /\ recon[who].pc = "deleteRow"
  /\ recon' = [recon EXCEPT !.plans = deleteLayoutPlan(@, recon[who].id),
                            ![who] = Answered(recon[who], 200)]
  /\ UNCHANGED <<users, payments, plots, seq, last>>

\* a query of the deletion throws: the catch answers 500
DeletePlanFails(who) ==
  /\ recon[who].pc \in {"byId", "deleteRow"}
  /\ recon' = [recon EXCEPT ![who] = Answered(recon[who], 500)]
  /\ UNCHANGED <<users, payments, plots, seq, last>>

NextLayout ==
  \E who \in {"a", "b"} :
    \/ \E layoutName \in LayoutNames, hasFile \in BOOLEAN : UploadStart(who, layoutName, hasFile)
    \/ UploadLookup(who) \/ UploadInsert(who) \/ UploadFails(who)
    \/ \E id \in LayoutIds : DeletePlanStart(who, id)
    \/ DeletePlanLookup(who) \/ DeletePlanRow(who) \/ DeletePlanFails(who)

SpecLayout == InitLayout /\ [][NextLayout]_vars

\* ================================================================ claims
StoredBalanceOf(id) ==
  Max(0, users[id].total_money_to_pay - (users[id].initial_deposit + SumPayments(Stores, id)))

\* C1: in every committed state each account's stored total_balance is
\* max(0, total_money_to_pay - (initial_deposit + sum of its payments)).
C1_BalanceInvariant ==
  \A id \in DOMAIN users : users[id].total_balance = StoredBalanceOf(id)

\* C2: in every committed state an account is Completed exactly when its stored
\* balance is 0, and an account with a balance above 0 is not Completed.
C2_CompletedIffZeroBalance ==
  \A id \in DOMAIN users :
    /\ users[id].status = "Completed" <=> users[id].total_balance = 0
    /\ users[id].total_balance > 0 => users[id].status # "Completed"

\* C3: a request one of whose statements fails leaves the account, payment and
\* plot stores exactly as they were before it.
C3_AllOrNothing ==
  [][last'.failed => users' = users /\ payments' = payments /\ plots' = plots]_vars

\* a statement failed after the transaction had already written
C3_Witness == last.failed /\ last.undone /\ last.op \in {"create", "payment"}

\* C4: recordPayment for an id without account answers success = false and
\* leaves no payment row for that id.
C4_AbsentAccountPayment ==
  (last.op = "payment" /\ last.id \notin DOMAIN users)
    => ~last.success /\ \A p \in payments : p.user_id # last.id

\* the payment was inserted, the account was missing, the insert was undone
C4_Witness ==
  /\ last.op = "payment" /\ last.code = 201 /\ last.id \notin DOMAIN users
  /\ ~last.failed /\ last.undone /\ ~last.success

\* C5: a Delete of an existing account none of whose statements fails is
\* successful, and after it the account row is gone, no payment references the
\* account and every plot of its plot list is Available, without owner and
\* reservation time.
C5_DeleteCascade ==
  (last.op = "delete" /\ last.code # 404 /\ ~last.failed)
    => /\ last.code = 200
       /\ last.id \notin DOMAIN users
       /\ \A p \in payments : p.user_id # last.id
       /\ \A n \in Range(plotNumbersOf(last.body.plot_taken)) \cap StoreNumbers :
            plots[n] = AvailablePlot

\* C6: an Update of an existing account that carries plot_taken and none of
\* whose statements fails is successful, and after it no plot outside the new
\* list is owned by the account's name and every plot of the new list that the
\* store has is Sold and owned by the account's name.
C6_UpdateMovesPlots ==
  (/\ last.op \in {"put", "patch"} /\ last.code # 404 /\ ~last.failed
   /\ "plot_taken" \in DOMAIN last.body)
    => /\ last.code = 200
       /\ \A n \in StoreNumbers :
            IF n \in Range(plotNumbersOf(last.body.plot_taken))
            THEN plots[n].status = "Sold" /\ plots[n].owner = users[last.id].name
            ELSE plots[n].owner # users[last.id].name

\* C7: the status a reconciliation stores is Completed when the balance is at
\* most 0, Active when the balance is above 0 and the status was Completed,
\* and the status as it was otherwise.
C7_StatusTransition ==
  (recon.done /\ last.op \in {"payment", "put", "patch"})
    => LET u == users[last.id]
       IN /\ u.total_balance = recon.user_balance /\ u.status = recon.user_status
          /\ u.total_balance <= 0 => u.status = "Completed"
          /\ (u.total_balance > 0 /\ recon.prior = "Completed") => u.status = "Active"
          /\ (u.total_balance > 0 /\ recon.prior # "Completed") => u.status = recon.prior

\* a refund reopened a Completed account
C7_Witness ==
  /\ recon.done /\ last.op = "payment" /\ recon.prior = "Completed"
  /\ users[last.id].status = "Active" /\ users[last.id].total_balance > 0

\* C8: for a due amount, a deposit and payments that are all at least 0,
\* reconciliation gives a balance of at least 0, and Completed when it is 0.
C8_BalanceNeverNegative ==
  recon.done => /\ recon.user_balance >= 0
                /\ recon.user_balance = 0 => recon.user_status = "Completed"

\* an overpayment was reconciled: more was paid than was due
C8_Witness ==
  /\ recon.done
  /\ recon.initial_deposit + SumSeq(recon.payments) > recon.total_money_to_pay
  /\ recon.user_balance = 0 /\ recon.user_status = "Completed"

\* C9: Create stores total_balance = max(0, total_money_to_pay - initial_deposit)
\* and the status Completed exactly when that balance is 0, Active otherwise.
C9_CreateBalance ==
  (last.op = "create" /\ last.code = 201)
    => LET u == users[last.id]
       IN /\ u.total_balance = Max(0, u.total_money_to_pay - u.initial_deposit)
          /\ u.status = IF u.total_balance = 0 THEN "Completed" ELSE "Active"

\* the plot numbers of the account created last that the store has
CreatedPlots == Range(plotNumbersOf(users[last.id].plot_taken)) \cap StoreNumbers

\* C10 as stated: after a successful Create every plot of the new account's
\* list that the store has is Sold and owned by the new account's name.
C10_CreateSellsListedPlots ==
  (last.op = "create" /\ last.code = 201)
    => \A n \in CreatedPlots : plots[n].status = "Sold" /\ plots[n].owner = users[last.id].name

\* C10 amended: a successful Create makes every plot of the new account's list
\* that was Available Sold and owned by the new account's name, and leaves a
\* listed plot that was already Sold as it was.
C10_CreateSellsAvailablePlots ==
  [][(last'.op = "create" /\ last'.code = 201)
       => \A n \in Range(plotNumbersOf(users'[last'.id].plot_taken)) \cap StoreNumbers :
            IF plots[n].status = "Available"
            THEN plots'[n].status = "Sold" /\ plots'[n].owner = users'[last'.id].name
            ELSE plots'[n] = plots[n]]_vars

\* the new account got one listed plot and found another one sold to someone else
C10_Witness ==
  /\ last.op = "create" /\ last.code = 201
  /\ \E n \in CreatedPlots : plots[n].owner = users[last.id].name
  /\ \E n \in CreatedPlots : plots[n].status = "Sold" /\ plots[n].owner # users[last.id].name

\* the prices of a price list, an entry that is no number counting 0
PricesOf(price_per_plot) ==
  [i \in 1..Len(split(price_per_plot)) |-> OrZero(parseFloatStr(trim(split(price_per_plot)[i])))]

\* the prices paired position by position with the plots, added up
RECURSIVE PairedTotal(_, _)
PairedTotal(plotList, priceList) ==
  IF plotList = <<>> \/ priceList = <<>> THEN 0
  ELSE Head(priceList) + PairedTotal(Tail(plotList), Tail(priceList))

\* C11: the total amount due that Create computes is the sum of the prices
\* paired position by position with the assigned plots; an entry of either
\* list beyond the length of the shorter one adds nothing.
C11_PositionalTotal ==
  recon.done =>
    LET plotList == split(recon.plot_taken)
        priceList == PricesOf(recon.price_per_plot)
        n == Min(Len(plotList), Len(priceList))
    IN /\ recon.total_money_to_pay = PairedTotal(plotList, priceList)
       /\ recon.total_money_to_pay = PairedTotal(SubSeq(plotList, 1, n), SubSeq(priceList, 1, n))

\* one plot and two prices: the second price was left out of the total
C11_Witness ==
  /\ recon.done
  /\ Len(split(recon.plot_taken)) = 1 /\ PricesOf(recon.price_per_plot) = <<1, 2>>
  /\ recon.total_money_to_pay = 1

\* C12: in every committed state a plot has an owner exactly when its status
\* is Sold.
C12_OwnerIffSold ==
  \A n \in DOMAIN plots : plots[n].owner # NULL <=> plots[n].status = "Sold"

\* an update or a delete was asked for an account that holds a Sold plot while
\* another plot is Available
C12_Witness ==
  /\ last.op \in {"put", "patch", "delete"} /\ last.id \in DOMAIN users
  /\ \E n \in DOMAIN plots : plots[n].status = "Sold" /\ plots[n].owner = users[last.id].name
  /\ \E n \in DOMAIN plots : plots[n] = AvailablePlot

\* C13: a connection that a request has leased is released, once and no more,
\* whichever way the request ends.
C13_ReleasedOnce ==
  /\ [](/\ recon.releases <= recon.leases
        /\ recon.held = recon.leases - recon.releases
        /\ recon.pc = "done" => recon.held = 0)
  /\ (recon.held = 1) ~> (recon.pc = "done" /\ recon.held = 0 /\ recon.releases = 1)

\* BEGIN failed, then ROLLBACK failed, and the connection went back once
C13_Witness ==
  /\ recon.pc = "done" /\ recon.failedAt = 1 /\ recon.rollbackFailed
  /\ recon.leases = 1 /\ recon.releases = 1 /\ recon.held = 0

\* C14: a recording of a payment that failed (the account is absent, or a
\* statement failed) is not answered as a success: the answer is not the 201
\* that carries success = true.
C14_FailedPaymentAnswered ==
  (last.op = "payment" /\ ~last.success) => last.code # 201

\* a required field of a Create request that is missing or empty
IsMissing(x) == x.t = "undefined" \/ (x.t = "string" /\ x.s = <<>>)
RequiredFieldMissing(req) ==
  \/ req.name = NoName \/ ~req.rest
  \/ IsMissing(req.plot_taken) \/ IsMissing(req.initial_deposit) \/ IsMissing(req.price_per_plot)

\* C15: a Create with a required field missing or empty is answered with a
\* validation error, an Update or Delete of an id without account with
\* not-found, and both leave the account, payment and plot stores unchanged.
C15_RejectedChangesNothing ==
  [][/\ (last'.op = "create" /\ RequiredFieldMissing(last'.body))
          => /\ last'.code = 400 /\ ~last'.success
             /\ users' = users /\ payments' = payments /\ plots' = plots
     /\ (last'.op \in {"put", "patch", "delete"} /\ last'.id \notin DOMAIN users /\ ~last'.failed)
          => /\ last'.code = 404 /\ ~last'.success
             /\ users' = users /\ payments' = payments /\ plots' = plots]_vars

\* a Delete of an id without account was answered while another account, with
\* a plot and a payment, was in the stores
C15_Witness ==
  /\ last.op = "delete" /\ last.code = 404 /\ last.id \notin DOMAIN users
  /\ users # <<>> /\ payments # {} /\ \E n \in DOMAIN plots : plots[n].status = "Sold"

C17_PaymentRowsImmutable ==
  [][\A p \in payments :
       \/ p \in payments'
       \/ /\ last'.op = "delete" /\ last'.code = 200 /\ p.user_id = last'.id
          /\ \A q \in payments' : q.user_id # last'.id]_vars

\* a payment was recorded for an account that had a payment already, and the
\* earlier row is there
C17_Witness ==
  /\ last.op = "payment" /\ last.success
  /\ \E p, q \in payments : p.id < q.id /\ p.user_id = last.id /\ q.user_id = last.id

\* C18: a successful recordPayment returns the payment it inserted, with the
\* balance and status it stored in the account row and with total_paid =
\* initial_deposit + the sum of the account's payments, the new one included.
C18_PaymentResult ==
  (recon.done /\ last.op = "payment")
    => LET u == users[recon.id]
       IN /\ last.success /\ recon.id = last.id
          /\ \E p \in payments : p.id = recon.payment /\ p.user_id = recon.id
          /\ recon.user_balance = u.total_balance
          /\ recon.user_status = u.status
          /\ recon.total_paid = u.initial_deposit + SumPayments(Stores, recon.id)

\* the payment returned is the second of its account, and neither is 0
C18_Witness ==
  /\ recon.done /\ last.op = "payment"
  /\ Cardinality({p \in payments : p.user_id = recon.id}) = 2
  /\ recon.total_paid # users[recon.id].initial_deposit

C21_BothCommitLastWins ==
  (recon.a.pc = "done" /\ recon.b.pc = "done" /\ recon.a.body = recon.b.body)
    => /\ recon.a.code = 200 /\ recon.b.code = 200
       /\ \A n \in Range(plotNumbersOf(recon.a.body.plot_taken)) \cap StoreNumbers :
            /\ plots[n].status = "Sold"
            /\ plots[n].owner = users[recon[recon.order[Len(recon.order)]].id].name

\* the step is an Update of an existing account none of whose statements fails
UpdateActs == last'.op \in {"put", "patch"} /\ last'.id \in DOMAIN users /\ ~last'.failed

\* C22: an Update of an existing account whose plot list names a number the
\* store has not is successful; the plots of the list that the store has are
\* Sold to the account, and the store has the plots it had.
C22_UnknownPlotSkipped ==
  [][(/\ UpdateActs /\ "plot_taken" \in DOMAIN last'.body
      /\ Range(plotNumbersOf(last'.body.plot_taken)) \ StoreNumbers # {})
       => /\ last'.code = 200
          /\ DOMAIN plots' = DOMAIN plots
          /\ \A n \in Range(plotNumbersOf(last'.body.plot_taken)) \cap StoreNumbers :
               plots'[n].status = "Sold" /\ plots'[n].owner = users'[last'.id].name]_vars

C27_RenameMovesPlots ==
  [][(/\ UpdateActs /\ "name" \in DOMAIN last'.body /\ "plot_taken" \in DOMAIN last'.body
      /\ last'.body.name # users[last'.id].name)
       => /\ last'.code = 200
          /\ \A n \in DOMAIN plots' : plots'[n].owner # users[last'.id].name
          /\ \A n \in Range(plotNumbersOf(last'.body.plot_taken)) \cap StoreNumbers :
               plots'[n].status = "Sold" /\ plots'[n].owner = last'.body.name]_vars

\* C28: a PATCH whose request carries neither initial_deposit nor
\* total_money_to_pay leaves the account's status as it was, and a PUT whose
\* request carries a status (and neither of the two) stores that status.
C28_StatusByMethod ==
  [][(UpdateActs /\ {"initial_deposit", "total_money_to_pay"} \cap DOMAIN last'.body = {})
       => /\ last'.op = "patch" => users'[last'.id].status = users[last'.id].status
          /\ (last'.op = "put" /\ "status" \in DOMAIN last'.body)
               => last'.code = 200 /\ users'[last'.id].status = last'.body.status]_vars

\* C24 as stated: a transaction whose connection has been released has sent
\* one COMMIT or one ROLLBACK, not both and not neither, and has not
\* committed after one of its statements failed.
C24_OneCommitOrRollback ==
  (recon.pc = "done" /\ recon.leases = 1)
    => /\ recon.commits + recon.rollbacks = 1
       /\ recon.failedAt # 0 => ~recon.committed

\* C24 amended: a transaction whose connection has been released has either
\* committed, with one COMMIT, no ROLLBACK and no failed statement, or has
\* sent one ROLLBACK and has not committed; it has sent both a COMMIT and a
\* ROLLBACK only when the COMMIT is the statement that failed.
C24_CommitOrRollback ==
  (recon.pc = "done" /\ recon.leases = 1)
    => /\ \/ recon.committed /\ recon.commits = 1 /\ recon.rollbacks = 0 /\ recon.failedAt = 0
          \/ ~recon.committed /\ recon.rollbacks = 1 /\ recon.commits <= 1
       /\ (recon.commits = 1 /\ recon.rollbacks = 1)
            => recon.failedAt = Len(recon.stmts) /\ recon.stmts[recon.failedAt] = "COMMIT"

\* the COMMIT failed and the ROLLBACK followed it
C24_Witness ==
  /\ recon.pc = "done" /\ recon.leases = 1 /\ recon.releases = 1
  /\ recon.commits = 1 /\ recon.rollbacks = 1 /\ ~recon.committed

\* C25: once two concurrent recordPayments have both ended, the stored
\* total_balance of every account is max(0, total_money_to_pay -
\* (initial_deposit + the sum of its committed payments)).
C25_NoLostPayment ==
  (recon.pay.pc = "done" /\ recon.pay2.pc = "done")
    => \A id \in DOMAIN users : users[id].total_balance = StoredBalanceOf(id)

C29_LayoutNamesUnique ==
  \A r1, r2 \in recon.plans : r1.layout_name = r2.layout_name => r1 = r2

====
